---- MODULE Spec2Model ----
(***************************************************************************)
(* Model of app.py: the /solve_vrp request handler (handle_vrp_request),   *)
(* the data it prepares, the routing problem it states to the constraint   *)
(* solver (solve_vrp), the projection of the solver's answer               *)
(* (get_solution_details) and the default distance matrix                  *)
(* (create_distance_matrix), which draws from the process-wide random      *)
(* generator.                                                              *)
(*                                                                         *)
(* Python lists are sequences; At(l, i) is the 0-based l[i].               *)
(***************************************************************************)
EXTENDS Integers, Sequences, FiniteSets, TLC

\* ------------------------------------------------------------------ bounds
MaxCustomers == 2
MaxVehicles == 2

\* values a request may carry (wire type int for every one of them)
DemandValues == {-1, 1, 2}
CapacityValues == {-1, 1, 3}
DepotValues == {0, 1, 2}
LocationIDValues == 0 .. MaxCustomers

\* ------------------------------------------------------- program constants
Seed == 42
Scale == 1000
ServerError == 500
Ok == 200

\* random.seed(42); random.randint(500, 50000), ... : the values CPython's
\* generator returns, in order, after the seeding of line 23.
Stream ==
  << 42405, 7796, 2139, 49098, 18524, 16549, 15128, 9644, 48765, 7217,
     44848, 49040, 36241, 6197, 39198, 28151, 2582, 2452, 6640, 14828,
     15747, 33618, 39953, 2239, 37281, 13531, 47425, 43090, 46462, 36213 >>

VARIABLES
  pc,                 \* position of the handler
  customer_data,      \* request: list of rows {LocationID, Demand}
  vehicle_capacities, \* request: list of int
  depot_index,        \* request: int
  data,               \* the dict built at lines 156-163
  solveInvoked,       \* solve_vrp has been called for this request
  solution,           \* what SolveWithParameters returned
  response,           \* what the handler returned
  rng,                \* the random module's generator: [seed, draws]
  th                  \* concurrent create_distance_matrix activations

vars == << pc, customer_data, vehicle_capacities, depot_index, data,
           solveInvoked, solution, response, rng, th >>

reqVars == << pc, customer_data, vehicle_capacities, depot_index, data,
              solveInvoked, solution, response >>

\* ----------------------------------------------------------------- lists
At(l, i) == l[i + 1]

Indices(l) == 0 .. (Len(l) - 1)

RECURSIVE Sum(_)
Sum(l) == IF l = << >> THEN 0 ELSE l[1] + Sum(Tail(l))

\* [0] * n
Zeros(n) == [k \in 1 .. n |-> 0]

\* l[i] = x
Store(l, i, x) == [l EXCEPT ![i + 1] = x]

ListsUpTo(S, n) == UNION { [1 .. k -> S] : k \in 0 .. n }

\* ------------------------------------------- create_distance_matrix, 13-39
\* random.randint(500, 50000) in generator state g: the value, and g advanced
RandInt(g) == Stream[(g.draws % Len(Stream)) + 1]

Advance(g) == [g EXCEPT !.draws = g.draws + 1]

\* random.seed(42)
Seeded == [seed |-> Seed, draws |-> 0]

LoopStart == [i |-> 0, j |-> 0, row |-> << >>, matrix |-> << >>]

\* one iteration of the inner loop, lines 27-36, and line 37 after the last
\* column of a row; st is the activation's locals, g the shared generator
Cell(st, g) ==
  IF st.i = st.j THEN 0
  ELSE IF st.j < st.i THEN At(At(st.matrix, st.j), st.i)
  ELSE RandInt(g)

CellDraws(st) == st.j > st.i

CellStep(st, n, g) ==
  LET row == Append(st.row, Cell(st, g))
  IN IF st.j + 1 < n
       THEN [st EXCEPT !.j = st.j + 1, !.row = row]
       ELSE [i |-> st.i + 1, j |-> 0, row |-> << >>,
             matrix |-> Append(st.matrix, row)]

RECURSIVE RunLoop(_, _, _)
RunLoop(st, n, g) ==
  IF st.i >= n THEN [matrix |-> st.matrix, rng |-> g]
  ELSE RunLoop(CellStep(st, n, g), n, IF CellDraws(st) THEN Advance(g) ELSE g)

\* the call run on its own, nothing else touching the generator: the matrix
\* returned and the generator it leaves behind
CreateRun(n, g) ==
  IF n <= 1 THEN [matrix |-> << << 0 >> >>, rng |-> g]
  ELSE RunLoop(LoopStart, n, Seeded)

create_distance_matrix(n) == CreateRun(n, Seeded).matrix

\* ------------------------------------------ handle_vrp_request, 137-163
\* mutant: the lower bound of line 151 written 0 <= loc_id
ValidLocationID_ZeroAllowed(loc_id, num_locations) ==
  0 <= loc_id /\ loc_id < num_locations

ValidLocationID(loc_id, num_locations) == 0 < loc_id /\ loc_id < num_locations

\* the loop of lines 148-154: the demands list, or the ValueError
RECURSIVE FillDemands(_, _, _)
FillDemands(rows, demands, num_locations) ==
  IF rows = << >> THEN [raised |-> FALSE, demands |-> demands]
  ELSE LET loc_id == rows[1].LocationID
           demand == rows[1].Demand
       IN IF ValidLocationID(loc_id, num_locations)
            THEN FillDemands(Tail(rows), Store(demands, loc_id, demand),
                             num_locations)
            ELSE [raised |-> TRUE, demands |-> demands]

NoData ==
  [distance_matrix |-> << >>, demands |-> << >>, num_locations |-> 0,
   num_vehicles |-> 0, depot_index |-> 0, vehicle_capacities |-> << >>]

BuildData(cd, vc, di) ==
  LET num_customers == Len(cd)
      num_locations == num_customers + 1
      num_vehicles == Len(vc)
      filled == FillDemands(cd, Zeros(num_locations), num_locations)
  IN [distance_matrix |-> create_distance_matrix(num_locations),
      demands |-> filled.demands,
      num_locations |-> num_locations,
      num_vehicles |-> num_vehicles,
      depot_index |-> di,
      vehicle_capacities |-> vc]

Raises(cd) ==
  FillDemands(cd, Zeros(Len(cd) + 1), Len(cd) + 1).raised

\* --------------------------------------------------------- solve_vrp, 42-84
\* The routing model stated to the solver: nodes 0 .. num_locations-1, one
\* start/end depot, vehicles 0 .. num_vehicles-1, every non-depot node on
\* exactly one vehicle's path (no disjunction is added), arc cost from the
\* matrix, and the dimension 'Capacity' (slack 0, start cumul fixed to 0,
\* cumuls within [0, capacity of the vehicle]).

Customers(d) == (0 .. (d.num_locations - 1)) \ {d.depot_index}

Vehicles(d) == 0 .. (d.num_vehicles - 1)

\* what RoutingIndexManager and AddDimensionWithVehicleCapacity require of
\* their arguments (lines 45-46, 65-70)
ArgumentsValid(d) ==
  /\ d.num_vehicles > 0
  /\ d.depot_index \in 0 .. (d.num_locations - 1)
  /\ \A v \in Vehicles(d) : At(d.vehicle_capacities, v) >= 0

InsertAt(s, p, x) == SubSeq(s, 1, p) \o << x >> \o SubSeq(s, p + 1, Len(s))

Max(S) == CHOOSE x \in S : \A y \in S : y <= x

\* every way to put the nodes on the vehicles' paths, each node once
RECURSIVE Routings(_, _)
Routings(nodes, vs) ==
  IF nodes = {} THEN { [v \in vs |-> << >>] }
  ELSE LET x == Max(nodes)
       IN UNION { UNION { { [r EXCEPT ![v] = InsertAt(r[v], p, x)] :
                             p \in 0 .. Len(r[v]) } : v \in vs } :
                  r \in Routings(nodes \ {x}, vs) }

\* the nodes a vehicle leaves from, in order: the start (depot), then its
\* customers; the end node follows
Path(d, route) == << d.depot_index >> \o route

\* demand_callback, lines 59-61, summed over the first k nodes of a path:
\* the cumul of 'Capacity' at the node after them
RECURSIVE Cumul(_, _, _)
Cumul(d, path, k) ==
  IF k = 0 THEN 0 ELSE Cumul(d, path, k - 1) + At(d.demands, path[k])

\* mutant: the dimension stated without the vehicles' capacities
CapacityHolds_NoUpperBound(d, v, route) ==
  \A k \in 0 .. Len(Path(d, route)) : 0 <= Cumul(d, Path(d, route), k)

\* AddDimensionWithVehicleCapacity, lines 65-70
CapacityHolds(d, v, route) ==
  \A k \in 0 .. Len(Path(d, route)) :
     /\ 0 <= Cumul(d, Path(d, route), k)
     /\ Cumul(d, Path(d, route), k) <= At(d.vehicle_capacities, v)

\* mutant: the dimension 'Capacity' never added to the routing model
Feasible_NoDimension(d) == Routings(Customers(d), Vehicles(d))

\* the assignments SolveWithParameters may return for valid arguments
Feasible(d) ==
  { r \in Routings(Customers(d), Vehicles(d)) :
      \A v \in Vehicles(d) : CapacityHolds(d, v, r[v]) }

\* the search of lines 73-82 stops at the time limit; with customers to place
\* it may stop before any assignment is found, and it finds none when none
\* exists
MayReturnNone(d) == Feasible(d) = {} \/ Customers(d) # {}

None == [found |-> FALSE, routes |-> << >>]

Found(r) == [found |-> TRUE, routes |-> r]

\* ---------------------------------------------- get_solution_details, 87-128
Cost(d, from_node, to_node) == At(At(d.distance_matrix, from_node), to_node)

\* mutant: line 104 dropped, the depot listed like any node
RouteNodes_DepotKept(d, path) == path

\* lines 100-105: the nodes met before the end, the depot skipped
RECURSIVE RouteNodes(_, _)
RouteNodes(d, path) ==
  IF path = << >> THEN << >>
  ELSE IF path[1] # d.depot_index
         THEN << path[1] >> \o RouteNodes(d, Tail(path))
         ELSE RouteNodes(d, Tail(path))

\* lines 107-110: arc costs along the path and back to the depot
RECURSIVE RouteDistance(_, _)
RouteDistance(d, path) ==
  IF Len(path) = 1 THEN Cost(d, path[1], d.depot_index)
  ELSE Cost(d, path[1], path[2]) + RouteDistance(d, Tail(path))

\* x / 1000, as the pair numerator, denominator
Div1000(x) == << x, Scale >>

\* lines 113-122
RouteEntry(d, sol, vehicle_id) ==
  LET path == Path(d, sol.routes[vehicle_id])
  IN [vehicle_id |-> vehicle_id + 1,
      route_nodes |-> RouteNodes(d, path),
      total_distance |-> Div1000(RouteDistance(d, path)),
      total_load |-> Cumul(d, path, Len(path))]

\* solution.ObjectiveValue(): the arc costs of all vehicles
RECURSIVE ObjectiveValue(_, _, _)
ObjectiveValue(d, sol, nv) ==
  IF nv = 0 THEN 0
  ELSE ObjectiveValue(d, sol, nv - 1)
       + RouteDistance(d, Path(d, sol.routes[nv - 1]))

get_solution_details(d, sol) ==
  IF ~sol.found
    THEN [solution_status |-> "NO_SOLUTION", http |-> Ok,
          objective_value |-> << >>, routes |-> << >>]
    ELSE [solution_status |-> "OPTIMAL", http |-> Ok,
          objective_value |-> Div1000(ObjectiveValue(d, sol, d.num_vehicles)),
          routes |-> [k \in 1 .. d.num_vehicles |-> RouteEntry(d, sol, k - 1)]]

\* lines 172-174
ErrorResponse ==
  [solution_status |-> "ERROR", http |-> ServerError,
   objective_value |-> << >>, routes |-> << >>]

\* the process is ended by a failed check inside the library: no response
NoResponse ==
  [solution_status |-> "ABORTED", http |-> 0,
   objective_value |-> << >>, routes |-> << >>]

Pending ==
  [solution_status |-> "PENDING", http |-> 0,
   objective_value |-> << >>, routes |-> << >>]

\* ------------------------------------------------------------------ state
\* a row of customer_data; int(row['LocationID']) and int(row['Demand']) of
\* lines 149-150 applied to the JSON integers of a row give the integers
Rows == [LocationID : LocationIDValues, Demand : DemandValues]

Threads == {1, 2}

IdleThread == [pc |-> "idle", n |-> 0, st |-> LoopStart]

Init ==
  /\ pc = "idle"
  /\ customer_data = << >>
  /\ vehicle_capacities = << >>
  /\ depot_index = 0
  /\ data = NoData
  /\ solveInvoked = FALSE
  /\ solution = None
  /\ response = Pending
  /\ rng = [seed |-> 0, draws |-> 0]
  /\ th = [t \in Threads |-> IdleThread]

\* ---------------------------------------------------------------- actions
\* lines 135-139: a request arrives
Receive ==
  /\ pc = "idle"
  /\ \E cd \in ListsUpTo(Rows, MaxCustomers),
        vc \in ListsUpTo(CapacityValues, MaxVehicles),
        di \in DepotValues :
       /\ customer_data' = cd
       /\ vehicle_capacities' = vc
       /\ depot_index' = di
  /\ pc' = "prepare"
  /\ UNCHANGED << data, solveInvoked, solution, response, rng, th >>

\* lines 142-154, a LocationID refused: ValueError
PrepareRaises ==
  /\ pc = "prepare"
  /\ Raises(customer_data)
  /\ pc' = "except"
  /\ UNCHANGED << customer_data, vehicle_capacities, depot_index, data,
                  solveInvoked, solution, response, rng, th >>

\* lines 142-163, every row accepted
PrepareData ==
  /\ pc = "prepare"
  /\ ~Raises(customer_data)
  /\ data' = BuildData(customer_data, vehicle_capacities, depot_index)
  /\ rng' = CreateRun(Len(customer_data) + 1, rng).rng
  /\ pc' = "solve"
  /\ UNCHANGED << customer_data, vehicle_capacities, depot_index,
                  solveInvoked, solution, response, th >>

\* line 166 with arguments the library refuses: it raises, ends the process,
\* or returns no assignment
SolveRefusedRaises ==
  /\ pc = "solve"
  /\ ~ArgumentsValid(data)
  /\ solveInvoked' = TRUE
  /\ pc' = "except"
  /\ UNCHANGED << customer_data, vehicle_capacities, depot_index, data,
                  solution, response, rng, th >>

SolveRefusedAborts ==
  /\ pc = "solve"
  /\ ~ArgumentsValid(data)
  /\ solveInvoked' = TRUE
  /\ response' = NoResponse
  /\ pc' = "aborted"
  /\ UNCHANGED << customer_data, vehicle_capacities, depot_index, data,
                  solution, rng, th >>

SolveRefusedNone ==
  /\ pc = "solve"
  /\ ~ArgumentsValid(data)
  /\ solveInvoked' = TRUE
  /\ solution' = None
  /\ pc' = "project"
  /\ UNCHANGED << customer_data, vehicle_capacities, depot_index, data,
                  response, rng, th >>

\* line 166, lines 42-84: an assignment is returned
SolveFound ==
  /\ pc = "solve"
  /\ ArgumentsValid(data)
  /\ solveInvoked' = TRUE
  /\ \E r \in Feasible(data) : solution' = Found(r)
  /\ pc' = "project"
  /\ UNCHANGED << customer_data, vehicle_capacities, depot_index, data,
                  response, rng, th >>

\* line 166, lines 42-84: no assignment is returned
SolveNone ==
  /\ pc = "solve"
  /\ ArgumentsValid(data)
  /\ MayReturnNone(data)
  /\ solveInvoked' = TRUE
  /\ solution' = None
  /\ pc' = "project"
  /\ UNCHANGED << customer_data, vehicle_capacities, depot_index, data,
                  response, rng, th >>

\* lines 169-170
Respond ==
  /\ pc = "project"
  /\ response' = get_solution_details(data, solution)
  /\ pc' = "done"
  /\ UNCHANGED << customer_data, vehicle_capacities, depot_index, data,
                  solveInvoked, solution, rng, th >>

\* lines 172-174
Except ==
  /\ pc = "except"
  /\ response' = ErrorResponse
  /\ pc' = "done"
  /\ UNCHANGED << customer_data, vehicle_capacities, depot_index, data,
                  solveInvoked, solution, rng, th >>

Next ==
  \/ Receive
  \/ PrepareRaises
  \/ PrepareData
  \/ SolveRefusedRaises
  \/ SolveRefusedAborts
  \/ SolveRefusedNone
  \/ SolveFound
  \/ SolveNone
  \/ Respond
  \/ Except

Spec == Init /\ [][Next]_vars

\* ------------------------------------- concurrent requests, line 157 twice
\* Two requests served by two threads.  All of a handler's state is local
\* except the random module's generator, which create_distance_matrix seeds
\* and draws from; th[t] is the activation of create_distance_matrix made by
\* thread t, n its num_locations.

\* line 157 calls; lines 17-18 return at once for a single location
CallCreate(t) ==
  /\ th[t].pc = "idle"
  /\ \E n \in 1 .. MaxCustomers + 1 :
       th' = [th EXCEPT ![t] =
                IF n <= 1
                  THEN [pc |-> "returned", n |-> n,
                        st |-> [LoopStart EXCEPT !.matrix = << << 0 >> >>]]
                  ELSE [pc |-> "seed", n |-> n, st |-> LoopStart]]
  /\ UNCHANGED << reqVars, rng >>

\* lines 21-23
SeedGenerator(t) ==
  /\ th[t].pc = "seed"
  /\ rng' = Seeded
  /\ th' = [th EXCEPT ![t].pc = "loop"]
  /\ UNCHANGED reqVars

\* lines 25-37, one column; line 39 after the last
LoopCell(t) ==
  /\ th[t].pc = "loop"
  /\ LET st == CellStep(th[t].st, th[t].n, rng)
     IN th' = [th EXCEPT ![t].st = st,
                         ![t].pc = IF st.i >= th[t].n THEN "returned"
                                   ELSE "loop"]
  /\ rng' = IF CellDraws(th[t].st) THEN Advance(rng) ELSE rng
  /\ UNCHANGED reqVars

ConcNext ==
  \E t \in Threads :
    \/ CallCreate(t)
    \/ SeedGenerator(t)
    \/ LoopCell(t)

SpecConc == Init /\ [][ConcNext]_vars

\* ================================================================= claims
\* the handler has returned a response
Done == pc = "done"

Optimal == Done /\ response.solution_status = "OPTIMAL"

RECURSIVE Count(_, _)
Count(l, x) ==
  IF l = << >> THEN 0
  ELSE (IF l[1] = x THEN 1 ELSE 0) + Count(Tail(l), x)

\* how often node x is listed in the first k routes of the response
RECURSIVE Listed(_, _)
Listed(x, k) ==
  IF k = 0 THEN 0
  ELSE Listed(x, k - 1) + Count(response.routes[k].route_nodes, x)

\* the demands of the nodes of a route_nodes list, added up
RECURSIVE Load(_)
Load(nodes) ==
  IF nodes = << >> THEN 0
  ELSE At(data.demands, nodes[1]) + Load(Tail(nodes))

RouteIds == 1 .. Len(response.routes)

RowIds == 1 .. Len(customer_data)

\* the Demand values of the rows submitted, added up
RECURSIVE SubmittedDemand(_)
SubmittedDemand(k) ==
  IF k = 0 THEN 0 ELSE SubmittedDemand(k - 1) + customer_data[k].Demand

HasBadLocationID ==
  \E k \in RowIds : customer_data[k].LocationID \notin 1 .. Len(customer_data)

BadFleet ==
  \/ Len(vehicle_capacities) = 0
  \/ \E k \in 1 .. Len(vehicle_capacities) : vehicle_capacities[k] < 0

\* C1: in every OPTIMAL response, each LocationID submitted in customer_data
\* is listed in the route_nodes of the returned routes exactly once, whatever
\* the depot_index.
C1_EveryCustomerOnce ==
  Optimal =>
    \A k \in RowIds :
      Listed(customer_data[k].LocationID, Len(response.routes)) = 1

\* C2: in every OPTIMAL response, the demands of the nodes listed in a
\* route add up to at most vehicle_capacities[vehicle_id - 1].
C2_LoadWithinCapacity ==
  Optimal =>
    \A k \in RouteIds :
      Load(response.routes[k].route_nodes)
        <= At(vehicle_capacities, response.routes[k].vehicle_id - 1)

C2_Witness ==
  /\ Optimal
  /\ Len(response.routes) = 2
  /\ \A k \in RouteIds : response.routes[k].route_nodes # << >>
  /\ \E k \in RouteIds :
       Load(response.routes[k].route_nodes)
         = At(vehicle_capacities, response.routes[k].vehicle_id - 1)
  /\ vehicle_capacities[1] # vehicle_capacities[2]

C4_BadLocationIDFailsFast ==
  (pc # "idle" /\ HasBadLocationID) =>
    /\ ~solveInvoked
    /\ pc \in {"prepare", "except", "done"}
    /\ Done => /\ response.solution_status = "ERROR"
               /\ response.http = ServerError

C4_Witness ==
  /\ Done
  /\ HasBadLocationID
  /\ Len(customer_data) = 2
  /\ customer_data[1].LocationID = 1
  /\ response.solution_status = "ERROR"

\* C5: a request with no vehicle or with a negative capacity is answered
\* ERROR, and solve_vrp is never invoked for it.
C5_BadFleetFailsFast ==
  (pc # "idle" /\ BadFleet) =>
    /\ ~solveInvoked
    /\ Done => response.solution_status = "ERROR"

\* C6: in the data handed to solve_vrp the demand at the depot is 0, for
\* every depot_index.
C6_DepotDemandZero ==
  (solveInvoked /\ data.depot_index \in Indices(data.demands)) =>
    At(data.demands, data.depot_index) = 0

\* C7, as stated: a request with no customer is answered OPTIMAL, objective
\* value 0, one route per vehicle, each with empty route_nodes, for any fleet.
C7_Original ==
  (Done /\ customer_data = << >>) =>
    /\ response.solution_status = "OPTIMAL"
    /\ response.objective_value = Div1000(0)
    /\ Len(response.routes) = Len(vehicle_capacities)
    /\ \A k \in RouteIds : response.routes[k].route_nodes = << >>

\* C7, amended: a request with no customer, at least one vehicle, no negative
\* capacity and depot_index 0 is answered OPTIMAL, objective value 0, one
\* route per vehicle, each with empty route_nodes.
C7_NoCustomers ==
  (Done /\ customer_data = << >> /\ ~BadFleet /\ depot_index = 0) =>
    /\ response.solution_status = "OPTIMAL"
    /\ response.objective_value = Div1000(0)
    /\ Len(response.routes) = Len(vehicle_capacities)
    /\ \A k \in RouteIds :
         /\ response.routes[k].route_nodes = << >>
         /\ response.routes[k].vehicle_id = k

C7_Witness ==
  /\ Done
  /\ customer_data = << >>
  /\ depot_index = 0
  /\ Len(vehicle_capacities) = 2
  /\ Len(response.routes) = 2
  /\ response.solution_status = "OPTIMAL"

\* C9: under every interleaving of two requests, the distance matrix a
\* request gets is the one it gets when it runs alone.
C9_MatrixAsAlone ==
  \A t \in Threads :
    th[t].pc = "returned" =>
      th[t].st.matrix = create_distance_matrix(th[t].n)

\* C10: in every OPTIMAL response, total_load of a route is the sum of the
\* demands of the nodes listed in its route_nodes, for every depot_index.
C10_TotalLoadIsRouteLoad ==
  Optimal =>
    \A k \in RouteIds :
      response.routes[k].total_load = Load(response.routes[k].route_nodes)

====
